---- MODULE Spec2Model ----
(***************************************************************************)
(* Model of the BlenderKit client daemon (src/client/main.go): the task    *)
(* registry Tasks, the mutation bus (handleChannels) and its six channels, *)
(* the job workers that feed the bus, the search and thumbnail workers     *)
(* that write tasks directly, the polling endpoint (reportHandler), the    *)
(* cancel endpoint and the disconnect endpoint with delayed shutdown.      *)
(*                                                                         *)
(* Task objects live on a heap and are referenced by pointer (an object id)*)
(* from the registry, from the Add channel, from the poll handler's        *)
(* toReport slice and from the workers that hold a *Task.  Every section   *)
(* of code run under TasksMux is one atomic action; code that runs after   *)
(* the lock is released is a step of its own, so that the interleavings    *)
(* the Go scheduler allows are explored.                                   *)
(***************************************************************************)
EXTENDS Integers, Sequences, FiniteSets, TLC

\* ------------------------------------------------------------------ bounds
MaxTasks == 2           \* task objects created in one run (uuid.New() values)
ChanCap == 1            \* buffered messages per bus channel
MaxTime == 7                \* the clock stops after this many minutes
MaxThumbs == 1          \* task objects beyond MaxTasks that thumbnails may take

Clients == {1, 2}       \* app_id values the requests carry
TaskIDs == 1..MaxTasks
ThumbIDs == 1..(MaxTasks + MaxThumbs)
Nil == 0                \* the nil pointer; also the id of no registered task

\* ------------------------------------------------------------------ values
InitialKinds == {"disclaimer", "categories_update", "notifications"}
RatingKind == "ratings/get_rating"
DownloadKind == "asset_download"
SearchKind == "search"
ThumbnailKind == "thumbnail_download"
BatchKinds == {"small", "full"}     \* smallThumbsTasks, fullThumbsTasks
ThumbURLs == {"u1", "u2"}           \* thumbnail URLs a result page carries
BusKinds == InitialKinds \cup {RatingKind, DownloadKind}
EmptyMap == "{}"        \* make(map[string]interface{})
ResultR == "R"          \* a decoded response body
PayloadP == "P"         \* the request data a task is created with
NullResult == "null"        \* a nil map or slice as Result: json.Marshal writes null
NoData == "nil"
APIKeys == {"", "key"}
UploadKind == "asset_upload"
MetadataKind == "asset_metadata_upload"
\* data.UploadSet as the add-on sends it
UploadSets == { <<"METADATA">>, <<"THUMBNAIL">>, <<"MAINFILE">>,
                <<"THUMBNAIL", "MAINFILE">>, <<"MAINFILE", "THUMBNAIL">> }
AssetBaseIDs == {"", "base"}                \* data.ExportData.AssetBaseID
AssetTypes == {"hdr", "model"}              \* the asset type of the metadata
RequestedStatuses == {"validated", "on_hold"}   \* data.UploadData.VerificationStatus
RemoteStatuses == {"validated", "on_hold", "deleted", "rejected"}   \* metadataResp.VerificationStatus
NoUpload == [st |-> "idle"]
\* what uuid.New() hands out where the ids of two clients are to coincide
UUIDs == {1}

\* ReportTimeout = 3 * time.Minute, in minutes
ReportTimeout == 3
\* the zero value of time.Time: further back than any threshold
ZeroTime == 0 - (MaxTime + ReportTimeout + 1)

VARIABLES
    Tasks,                  \* Tasks map[int]map[string]*Task
    heap,                   \* the Task objects, by object id
    nextId,                 \* the next value uuid.New() hands out
    AddTaskCh,
    TaskProgressUpdateCh,
    TaskMessageCh,
    TaskFinishCh,
    TaskErrorCh,
    TaskCancelCh,
    pc,                     \* position of the worker that owns each task
    toSpawn,                \* goroutines started by reportHandler, not yet running
    parse,                  \* parseThumbnails goroutines, by search task
    upload,                 \* the UploadAsset goroutine
    report,                 \* per client: the poll request in flight
    delivered,              \* history: per task, poll responses that reported it terminal
    quit,                   \* per client: the disconnect request in flight
    exitScheduled,          \* a delayedExit goroutine has been started
    exited,                 \* os.Exit was called
    now,                    \* the clock, in minutes since the start
    lastReportAccess,       \* var lastReportAccess time.Time
    wake,                   \* monitorReportAccess: when its time.Sleep is over
    polled,                 \* history: the time of the latest call to the polling endpoint
    crashed                 \* a goroutine panicked: the process is gone

chans == <<AddTaskCh, TaskProgressUpdateCh, TaskMessageCh, TaskFinishCh, TaskErrorCh, TaskCancelCh>>
workers == <<pc, toSpawn, parse, upload>>
watchdog == <<now, lastReportAccess, wake, polled>>
handlers == <<report, quit, exitScheduled, exited, watchdog>>
vars == <<Tasks, heap, nextId, chans, workers, handlers, delivered, crashed>>

\* ------------------------------------------------------------------ Task
NewTask(data, appID, taskID, taskType) ==
    [ Data        |-> IF data = NoData THEN EmptyMap ELSE data,
      AppID       |-> appID,
      TaskID      |-> taskID,
      TaskType    |-> taskType,
      Message     |-> "",
      Progress    |-> 0,
      Status      |-> "created",
      Result      |-> EmptyMap,
      CancelCalls |-> 0 ]

\* func (t *Task) Finish(message string)
Finish(t, message) == [t EXCEPT !.Status = "finished", !.Message = message]

\* t.Cancel(), the context.CancelFunc of the task; CancelCalls counts the calls
\* (2 stands for two or more)
Cancel(t) == [t EXCEPT !.CancelCalls = IF @ < 2 THEN @ + 1 ELSE @]

\* ------------------------------------------------------------------ registry
NilMap == [nil |-> TRUE, m |-> <<>>]
\* a first contact that leaves the namespace unmade
MapNotMade == [nil |-> TRUE, m |-> <<>>]
\* make(map[string]*Task)
MakeMap == [nil |-> FALSE, m |-> <<>>]

\* a registry of one level: the task of whichever namespace holds the id
LookupFlat(T, appID, taskID) ==
    LET holders == {c \in Clients : ~T[c].nil /\ taskID \in DOMAIN T[c].m}
    IN IF holders = {} THEN Nil
       ELSE T[CHOOSE c \in holders : \A d \in holders : c <= d].m[taskID]

\* Tasks[appID][taskID]: reading a nil map or a missing key yields the nil pointer
Lookup(T, appID, taskID) ==
    IF ~T[appID].nil /\ taskID \in DOMAIN T[appID].m THEN T[appID].m[taskID] ELSE Nil

\* a store that files the task in the first namespace that exists, whichever client
\* the task names
StoreInFirst(T, appID, taskID, oid) ==
    LET made == {c \in Clients : ~T[c].nil}
        first == IF made = {} THEN appID ELSE CHOOSE c \in made : \A d \in made : c <= d
    IN [T EXCEPT ![first].m = [k \in DOMAIN @ \cup {taskID} |-> IF k = taskID THEN oid ELSE @[k]]]

\* Tasks[appID][taskID] = task (the namespace map must exist)
Store(T, appID, taskID, oid) ==
    [T EXCEPT ![appID].m = [k \in DOMAIN @ \cup {taskID} |-> IF k = taskID THEN oid ELSE @[k]]]

\* delete(Tasks[appID], taskID): no-op on a missing key
Delete(T, appID, taskID) ==
    [T EXCEPT ![appID].m = [k \in DOMAIN @ \ {taskID} |-> @[k]]]

\* the task objects registered under a namespace
RegisteredIn(T, appID) == {T[appID].m[k] : k \in DOMAIN T[appID].m}
Registered(appID) == RegisteredIn(Tasks, appID)

\* len(Tasks) == 0
NoNamespaces(T) == \A d \in Clients : T[d].nil

Running == ~crashed /\ ~exited

Init ==
    /\ Tasks = [c \in Clients |-> NilMap]
    /\ heap = <<>>
    /\ nextId = 1
    /\ AddTaskCh = <<>>
    /\ TaskProgressUpdateCh = <<>>
    /\ TaskMessageCh = <<>>
    /\ TaskFinishCh = <<>>
    /\ TaskErrorCh = <<>>
    /\ TaskCancelCh = <<>>
    /\ pc = <<>>
    /\ toSpawn = {}
    /\ parse = <<>>
    /\ upload = NoUpload
    /\ report = [c \in Clients |-> [st |-> "idle", toReport |-> {}, APIKey |-> ""]]
    /\ delivered = <<>>
    /\ quit = [c \in Clients |-> [st |-> "idle", removed |-> FALSE, emptied |-> FALSE]]
    /\ exitScheduled = FALSE
    /\ exited = FALSE
    /\ now = 0
    /\ lastReportAccess = ZeroTime
    /\ wake = ReportTimeout
    /\ polled = <<>>
    /\ crashed = FALSE

\* ------------------------------------------------------------------ channels
\* make(chan ..., n): a send blocks while the buffer is full
Full(ch) == Len(ch) >= ChanCap

\* a nil pointer dereference or a write to a nil map panics: the process dies
Panic ==
    /\ crashed' = TRUE
    /\ UNCHANGED <<Tasks, heap>>

\* ------------------------------------------------------------------ handleChannels
\* case task := <-AddTaskCh
BusAdd ==
    /\ Running /\ AddTaskCh # <<>>
    /\ LET task == Head(AddTaskCh) IN
        /\ AddTaskCh' = Tail(AddTaskCh)
        /\ IF Tasks[heap[task].AppID].nil
             THEN Panic
             ELSE /\ Tasks' = Store(Tasks, heap[task].AppID, heap[task].TaskID, task)
                  /\ UNCHANGED <<heap, crashed>>
    /\ UNCHANGED <<nextId, TaskProgressUpdateCh, TaskMessageCh, TaskFinishCh, TaskErrorCh,
                   TaskCancelCh, workers, handlers, delivered>>

ApplyProgress(t, u) ==
    [t EXCEPT !.Progress = u.Progress,
              !.Message = IF u.Message # "" THEN u.Message ELSE @]

\* case u := <-TaskProgressUpdateCh
BusProgressUpdate ==
    /\ Running /\ TaskProgressUpdateCh # <<>>
    /\ LET u == Head(TaskProgressUpdateCh)
           task == Lookup(Tasks, u.AppID, u.TaskID) IN
        /\ TaskProgressUpdateCh' = Tail(TaskProgressUpdateCh)
        /\ IF task = Nil
             THEN Panic
             ELSE /\ heap' = [heap EXCEPT ![task] = ApplyProgress(@, u)]
                  /\ UNCHANGED <<Tasks, crashed>>
    /\ UNCHANGED <<nextId, AddTaskCh, TaskMessageCh, TaskFinishCh, TaskErrorCh,
                   TaskCancelCh, workers, handlers, delivered>>

\* case m := <-TaskMessageCh
BusMessage ==
    /\ Running /\ TaskMessageCh # <<>>
    /\ LET m == Head(TaskMessageCh)
           task == Lookup(Tasks, m.AppID, m.TaskID) IN
        /\ TaskMessageCh' = Tail(TaskMessageCh)
        /\ IF task = Nil
             THEN Panic
             ELSE /\ heap' = [heap EXCEPT ![task].Message = m.Message]
                  /\ UNCHANGED <<Tasks, crashed>>
    /\ UNCHANGED <<nextId, AddTaskCh, TaskProgressUpdateCh, TaskFinishCh, TaskErrorCh,
                   TaskCancelCh, workers, handlers, delivered>>

\* a Finish that drops the result it carries
FinishWithoutResult(t, f) ==
    [t EXCEPT !.Status = "finished",
              !.Message = IF f.Message # "" THEN f.Message ELSE @]

ApplyFinish(t, f) ==
    [t EXCEPT !.Status = "finished",
              !.Result = f.Result,
              !.Message = IF f.Message # "" THEN f.Message ELSE @]

\* case f := <-TaskFinishCh
BusFinish ==
    /\ Running /\ TaskFinishCh # <<>>
    /\ LET f == Head(TaskFinishCh)
           task == Lookup(Tasks, f.AppID, f.TaskID) IN
        /\ TaskFinishCh' = Tail(TaskFinishCh)
        /\ IF task = Nil
             THEN Panic
             ELSE /\ heap' = [heap EXCEPT ![task] = ApplyFinish(@, f)]
                  /\ UNCHANGED <<Tasks, crashed>>
    /\ UNCHANGED <<nextId, AddTaskCh, TaskProgressUpdateCh, TaskMessageCh, TaskErrorCh,
                   TaskCancelCh, workers, handlers, delivered>>

ApplyError(t, e) == [t EXCEPT !.Message = e.Error, !.Status = "error"]

\* an Error case without the test for a cancelled task
ErrorIsNeverIgnored(t) == FALSE

\* if task.Status == "cancelled": the late error of a cancelled task is swallowed
ErrorIsIgnored(t) == t.Status = "cancelled"

\* case e := <-TaskErrorCh
BusError ==
    /\ Running /\ TaskErrorCh # <<>>
    /\ LET e == Head(TaskErrorCh)
           task == Lookup(Tasks, e.AppID, e.TaskID) IN
        /\ TaskErrorCh' = Tail(TaskErrorCh)
        /\ IF task = Nil
             THEN Panic
             ELSE IF ErrorIsIgnored(heap[task])
                    THEN /\ Tasks' = Delete(Tasks, e.AppID, e.TaskID)
                         /\ UNCHANGED <<heap, crashed>>
                    ELSE /\ heap' = [heap EXCEPT ![task] = ApplyError(@, e)]
                         /\ UNCHANGED <<Tasks, crashed>>
    /\ UNCHANGED <<nextId, AddTaskCh, TaskProgressUpdateCh, TaskMessageCh, TaskFinishCh,
                   TaskCancelCh, workers, handlers, delivered>>

ApplyCancel(t) == Cancel([t EXCEPT !.Status = "cancelled"])

\* case k := <-TaskCancelCh
BusCancel ==
    /\ Running /\ TaskCancelCh # <<>>
    /\ LET k == Head(TaskCancelCh)
           task == Lookup(Tasks, k.AppID, k.TaskID) IN
        /\ TaskCancelCh' = Tail(TaskCancelCh)
        /\ IF task = Nil
             THEN Panic
             ELSE /\ heap' = [heap EXCEPT ![task] = ApplyCancel(@)]
                  /\ UNCHANGED <<Tasks, crashed>>
    /\ UNCHANGED <<nextId, AddTaskCh, TaskProgressUpdateCh, TaskMessageCh, TaskFinishCh,
                   TaskErrorCh, workers, handlers, delivered>>

\* for { select { ... } }: select takes any channel that is ready
handleChannels ==
    \/ BusAdd
    \/ BusProgressUpdate
    \/ BusMessage
    \/ BusFinish
    \/ BusError
    \/ BusCancel

\* ------------------------------------------------------------------ job workers
\* a new task object and the goroutine that owns it
Allocate(t, p) ==
    /\ nextId <= MaxTasks
    /\ heap' = heap @@ (nextId :> t)
    /\ pc' = pc @@ (nextId :> p)
    /\ delivered' = delivered @@ (nextId :> 0)
    /\ nextId' = nextId + 1

\* taskID := uuid.New().String(); AddTaskCh <- NewTask(data, data.AppID, taskID, kind)
StartWorker(c, kind, data) ==
    /\ Running
    /\ ~Full(AddTaskCh)
    /\ Allocate(NewTask(data, c, nextId, kind), "request")
    /\ AddTaskCh' = Append(AddTaskCh, nextId)

\* GetRatingHandler: go GetRating(data), for any app_id the request carries
GetRating(c) ==
    /\ StartWorker(c, RatingKind, PayloadP)
    /\ UNCHANGED <<Tasks, TaskProgressUpdateCh, TaskMessageCh, TaskFinishCh, TaskErrorCh,
                   TaskCancelCh, toSpawn, upload, parse, handlers, crashed>>

\* FetchDisclaimer, FetchCategories, FetchUnreadNotifications: started by reportHandler
InitialFetch(c, kind) ==
    /\ <<c, kind>> \in toSpawn
    /\ StartWorker(c, kind, NoData)
    /\ toSpawn' = toSpawn \ {<<c, kind>>}
    /\ UNCHANGED <<Tasks, TaskProgressUpdateCh, TaskMessageCh, TaskFinishCh, TaskErrorCh,
                   TaskCancelCh, parse, upload, handlers, crashed>>

IsBusWorker(t) == t \in DOMAIN pc /\ heap[t].TaskType \in BusKinds

\* the error exits (request, remote call, decoding): TaskErrorCh <- &TaskError{...}; return
WorkerFail(t) ==
    /\ Running
    /\ IsBusWorker(t) /\ pc[t] = "request"
    /\ ~Full(TaskErrorCh)
    /\ TaskErrorCh' = Append(TaskErrorCh, [AppID |-> heap[t].AppID, TaskID |-> heap[t].TaskID, Error |-> "err"])
    /\ pc' = [pc EXCEPT ![t] = "done"]
    /\ UNCHANGED <<Tasks, heap, nextId, AddTaskCh, TaskProgressUpdateCh, TaskMessageCh,
                   TaskFinishCh, TaskCancelCh, toSpawn, upload, parse, handlers, delivered, crashed>>

\* a worker that sends its Finish from inside a section under TasksMux in which it
\* writes the task
WorkerFinishLocked(t) ==
    /\ Running
    /\ IsBusWorker(t) /\ pc[t] = "request"
    /\ ~Full(TaskFinishCh)
    /\ TaskFinishCh' = Append(TaskFinishCh, [AppID |-> heap[t].AppID, TaskID |-> heap[t].TaskID,
                                            Message |-> "done", Result |-> ResultR])
    /\ heap' = [heap EXCEPT ![t].Message = "done"]
    /\ pc' = [pc EXCEPT ![t] = "done"]
    /\ UNCHANGED <<Tasks, nextId, AddTaskCh, TaskProgressUpdateCh, TaskMessageCh,
                   TaskErrorCh, TaskCancelCh, toSpawn, upload, parse, handlers, delivered, crashed>>

\* the success exit: TaskFinishCh <- &TaskFinish{...}
WorkerFinish(t) ==
    /\ Running
    /\ IsBusWorker(t) /\ pc[t] = "request"
    /\ ~Full(TaskFinishCh)
    /\ TaskFinishCh' = Append(TaskFinishCh, [AppID |-> heap[t].AppID, TaskID |-> heap[t].TaskID,
                                            Message |-> "done", Result |-> ResultR])
    /\ pc' = [pc EXCEPT ![t] = "done"]
    /\ UNCHANGED <<Tasks, heap, nextId, AddTaskCh, TaskProgressUpdateCh, TaskMessageCh,
                   TaskErrorCh, TaskCancelCh, toSpawn, upload, parse, handlers, delivered, crashed>>

\* uuid.New() for a job of client c: an id no task of c carries; the same value may
\* come up for a job of another client
FreshFor(c, id) == \A o \in DOMAIN heap : heap[o].AppID = c => heap[o].TaskID # id

\* taskID := uuid.New().String() yields id; AddTaskCh <- NewTask(data, data.AppID, taskID, kind)
StartJob(c, kind, data, id) ==
    /\ Running
    /\ ~Full(AddTaskCh)
    /\ FreshFor(c, id)
    /\ Allocate(NewTask(data, c, id, kind), "request")
    /\ AddTaskCh' = Append(AddTaskCh, nextId)

\* GetRatingHandler: go GetRating(data), with the id uuid.New() hands out
GetRatingAs(c, id) ==
    /\ StartJob(c, RatingKind, PayloadP, id)
    /\ UNCHANGED <<Tasks, TaskProgressUpdateCh, TaskMessageCh, TaskFinishCh, TaskErrorCh,
                   TaskCancelCh, toSpawn, upload, parse, handlers, crashed>>

\* the success exit after a response body null: var respData map[string]interface{}
\* stays nil through Decode and goes out as Result
WorkerFinishEmpty(t) ==
    /\ Running
    /\ IsBusWorker(t) /\ pc[t] = "request"
    /\ ~Full(TaskFinishCh)
    /\ TaskFinishCh' = Append(TaskFinishCh, [AppID |-> heap[t].AppID, TaskID |-> heap[t].TaskID,
                                            Message |-> "done", Result |-> NullResult])
    /\ pc' = [pc EXCEPT ![t] = "done"]
    /\ UNCHANGED <<Tasks, heap, nextId, AddTaskCh, TaskProgressUpdateCh, TaskMessageCh,
                   TaskErrorCh, TaskCancelCh, toSpawn, upload, parse, handlers, delivered, crashed>>

\* ------------------------------------------------------------------ download worker
\* downloadAssetHandler (registered in main) starts it; it reports progress while it runs
DownloadAsset(c) ==
    /\ StartWorker(c, DownloadKind, PayloadP)
    /\ UNCHANGED <<Tasks, TaskProgressUpdateCh, TaskMessageCh, TaskFinishCh, TaskErrorCh,
                   TaskCancelCh, toSpawn, upload, parse, handlers, crashed>>

DownloadProgress(t, msg) ==
    /\ Running
    /\ t \in DOMAIN pc /\ pc[t] = "request" /\ heap[t].TaskType = DownloadKind
    /\ ~Full(TaskProgressUpdateCh)
    /\ TaskProgressUpdateCh' = Append(TaskProgressUpdateCh,
            [AppID |-> heap[t].AppID, TaskID |-> heap[t].TaskID, Progress |-> 50, Message |-> msg])
    /\ UNCHANGED <<Tasks, heap, nextId, AddTaskCh, TaskMessageCh, TaskFinishCh, TaskErrorCh,
                   TaskCancelCh, workers, handlers, delivered, crashed>>

DownloadMessage(t) ==
    /\ Running
    /\ t \in DOMAIN pc /\ pc[t] = "request" /\ heap[t].TaskType = DownloadKind
    /\ ~Full(TaskMessageCh)
    /\ TaskMessageCh' = Append(TaskMessageCh,
            [AppID |-> heap[t].AppID, TaskID |-> heap[t].TaskID, Message |-> "downloading"])
    /\ UNCHANGED <<Tasks, heap, nextId, AddTaskCh, TaskProgressUpdateCh, TaskFinishCh,
                   TaskErrorCh, TaskCancelCh, workers, handlers, delivered, crashed>>

\* ------------------------------------------------------------------ cancel endpoint
\* TaskCancelCh <- &TaskCancel{AppID: data.AppID, TaskID: data.TaskID, ...}: both from the body
CancelDownloadHandler(c, id) ==
    /\ Running
    /\ ~Full(TaskCancelCh)
    /\ TaskCancelCh' = Append(TaskCancelCh, [AppID |-> c, TaskID |-> id])
    /\ UNCHANGED <<Tasks, heap, nextId, AddTaskCh, TaskProgressUpdateCh, TaskMessageCh,
                   TaskFinishCh, TaskErrorCh, workers, handlers, delivered, crashed>>

\* ------------------------------------------------------------------ search worker
\* doSearch: task := NewTask(rJSON, data.AppID, taskID, "search"); Tasks[task.AppID][taskID] = task
\* under TasksMux, without the bus (a write to the nil map of an unknown namespace panics)
doSearch(c) ==
    /\ Running
    /\ nextId <= MaxTasks
    /\ IF Tasks[c].nil
         THEN /\ crashed' = TRUE
              /\ UNCHANGED <<Tasks, heap, nextId, pc, delivered>>
         ELSE /\ Allocate(NewTask(PayloadP, c, nextId, SearchKind), "request")
              /\ Tasks' = Store(Tasks, c, nextId, nextId)
              /\ UNCHANGED crashed
    /\ UNCHANGED <<chans, toSpawn, upload, parse, handlers>>

\* the three error exits of doSearch (request, remote call, decoding): log and return
SearchFail(t) ==
    /\ Running
    /\ t \in DOMAIN pc /\ pc[t] = "request" /\ heap[t].TaskType = SearchKind
    /\ pc' = [pc EXCEPT ![t] = "returned"]
    /\ UNCHANGED <<Tasks, heap, nextId, chans, toSpawn, upload, parse, handlers, delivered, crashed>>

\* task.Result = searchResult; task.Finish(...) under TasksMux; go parseThumbnails(...)
\* n: the thumbnail targets (valid small or full URLs) the result page yields
SearchSucceed(t, n) ==
    /\ Running
    /\ t \in DOMAIN pc /\ pc[t] = "request" /\ heap[t].TaskType = SearchKind
    /\ heap' = [heap EXCEPT ![t] = Finish([@ EXCEPT !.Result = ResultR], "Search results downloaded")]
    /\ pc' = [pc EXCEPT ![t] = "done"]
    /\ parse' = parse @@ (t :> [left |-> n,
                                made |-> {},
                                batch |-> [b \in BatchKinds |-> {}],
                                st |-> [b \in BatchKinds |-> "collect"]])
    /\ UNCHANGED <<Tasks, nextId, chans, toSpawn, upload, handlers, delivered, crashed>>

\* a parser that appends every thumbnail task to its batch, on disk or not
ParseThumbnailQueuesAll(s, b, url, onDisk) ==
    /\ Running
    /\ s \in DOMAIN parse /\ parse[s].left > 0
    /\ nextId <= MaxTasks + MaxThumbs
    /\ LET c == heap[s].AppID
           task == NewTask(url, c, nextId, ThumbnailKind) IN
        IF Tasks[c].nil
          THEN /\ crashed' = TRUE
               /\ UNCHANGED <<Tasks, heap, nextId, pc, delivered, parse>>
          ELSE /\ heap' = heap @@ (nextId :> IF onDisk THEN Finish(task, "thumbnail on disk") ELSE task)
               /\ pc' = pc @@ (nextId :> "queued")
               /\ delivered' = delivered @@ (nextId :> 0)
               /\ nextId' = nextId + 1
               /\ Tasks' = Store(Tasks, c, nextId, nextId)
               /\ parse' = [parse EXCEPT ![s].left = @ - 1,
                                         ![s].made = @ \cup {nextId},
                                         ![s].batch[b] = @ \cup {nextId}]
               /\ UNCHANGED crashed
    /\ UNCHANGED <<chans, toSpawn, upload, handlers>>

\* one thumbnail target of the loop in parseThumbnails (b: small or full, url: its
\* ImageURL): NewTask, os.Stat, then Tasks[task.AppID][task.TaskID] = task under TasksMux
ParseThumbnail(s, b, url, onDisk) ==
    /\ Running
    /\ s \in DOMAIN parse /\ parse[s].left > 0
    /\ nextId <= MaxTasks + MaxThumbs
    /\ LET c == heap[s].AppID
           task == NewTask(url, c, nextId, ThumbnailKind) IN
        IF Tasks[c].nil
          THEN /\ crashed' = TRUE
               /\ UNCHANGED <<Tasks, heap, nextId, pc, delivered, parse>>
          ELSE /\ heap' = heap @@ (nextId :> IF onDisk THEN Finish(task, "thumbnail on disk") ELSE task)
               /\ pc' = pc @@ (nextId :> IF onDisk THEN "none" ELSE "queued")
               /\ delivered' = delivered @@ (nextId :> 0)
               /\ nextId' = nextId + 1
               /\ Tasks' = Store(Tasks, c, nextId, nextId)
               /\ parse' = [parse EXCEPT ![s].left = @ - 1,
                                         ![s].made = @ \cup {nextId},
                                         ![s].batch[b] = IF onDisk THEN @ ELSE @ \cup {nextId}]
               /\ UNCHANGED crashed
    /\ UNCHANGED <<chans, toSpawn, upload, handlers>>

\* go downloadImageBatch(tasks, block) after the loop: wg.Add(1); go DownloadThumbnail(task, wg)
\* for every task of the batch; without block the function returns at once
downloadImageBatch(s, b, block) ==
    /\ Running
    /\ s \in DOMAIN parse /\ parse[s].left = 0 /\ parse[s].st[b] = "collect"
    /\ pc' = [t \in DOMAIN pc |-> IF t \in parse[s].batch[b] THEN "request" ELSE pc[t]]
    /\ parse' = [parse EXCEPT ![s].st[b] = IF block THEN "wait" ELSE "returned"]
    /\ UNCHANGED <<Tasks, heap, nextId, chans, toSpawn, upload, handlers, delivered, crashed>>

\* wg.Wait() returns: every worker of the batch has run its deferred wg.Done()
BatchReturn(s, b) ==
    /\ Running
    /\ s \in DOMAIN parse /\ parse[s].st[b] = "wait"
    /\ \A t \in parse[s].batch[b] : pc[t] \in {"done", "returned"}
    /\ parse' = [parse EXCEPT ![s].st[b] = "returned"]
    /\ UNCHANGED <<Tasks, heap, nextId, chans, pc, toSpawn, upload, handlers, delivered, crashed>>

IsThumbWorker(t) == t \in DOMAIN pc /\ pc[t] = "request" /\ heap[t].TaskType = ThumbnailKind

\* DownloadThumbnail: http.NewRequest fails: print and return
ThumbnailReturn(t) ==
    /\ Running
    /\ IsThumbWorker(t)
    /\ pc' = [pc EXCEPT ![t] = "returned"]
    /\ UNCHANGED <<Tasks, heap, nextId, chans, toSpawn, upload, parse, handlers, delivered, crashed>>

\* DownloadThumbnail: the fetch, the status code, os.Create or io.Copy fails:
\* t.Message = "Error ..."; t.Status = "error" under TasksMux
ThumbnailError(t) ==
    /\ Running
    /\ IsThumbWorker(t)
    /\ heap' = [heap EXCEPT ![t].Message = "Error downloading thumbnail", ![t].Status = "error"]
    /\ pc' = [pc EXCEPT ![t] = "done"]
    /\ UNCHANGED <<Tasks, nextId, chans, toSpawn, upload, parse, handlers, delivered, crashed>>

\* DownloadThumbnail: t.Finish("thumbnail downloaded") under TasksMux
ThumbnailFinish(t) ==
    /\ Running
    /\ IsThumbWorker(t)
    /\ heap' = [heap EXCEPT ![t] = Finish(@, "thumbnail downloaded")]
    /\ pc' = [pc EXCEPT ![t] = "done"]
    /\ UNCHANGED <<Tasks, nextId, chans, toSpawn, upload, parse, handlers, delivered, crashed>>

\* ------------------------------------------------------------------ reportHandler
Terminal(t) == t.Status = "finished" \/ t.Status = "error"

\* json.Marshal of a *Task: the exported fields (Error, Ctx and Cancel are `json:"-"`)
Entry(t) ==
    [ Data |-> t.Data, AppID |-> t.AppID, TaskID |-> t.TaskID, TaskType |-> t.TaskType,
      Message |-> t.Message, Progress |-> t.Progress, Status |-> t.Status, Result |-> t.Result ]

\* reportTask: NewTask(nil, appID, uuid, "daemon_status") then Finish("Daemon is running");
\* the task is local to the request and its uuid is fresh: Nil stands for that uuid
ReportTask(c) == Entry(Finish(NewTask(NoData, c, Nil, "daemon_status"), "Daemon is running"))

\* the registered tasks in the order the loop appends them (Go leaves the map order
\* open; ascending here)
RECURSIVE Entries(_, _)
Entries(h, S) ==
    IF S = {} THEN <<>>
    ELSE LET o == CHOOSE x \in S : \A y \in S : x <= y
         IN <<Entry(h[o])>> \o Entries(h, S \ {o})

\* a response without the synthetic task
ListedOnly(c, h, S) == Entries(h, S)

\* the body json.Marshal(toReport) yields: the synthetic task first, then the listed ones
ToReport(c, h, S) == <<ReportTask(c)>> \o Entries(h, S)

\* the tasks of the namespace the loop lists (task.AppID == data.AppID)
Listed(T, c) == {o \in RegisteredIn(T, c) : heap[o].AppID = c}

\* a first contact that fetches the notifications whatever the API key
InitialJobsForAll(c, apiKey) ==
    {<<c, "disclaimer">>, <<c, "categories_update">>, <<c, "notifications">>}

\* the goroutines a first contact starts
InitialJobs(c, apiKey) ==
    {<<c, "disclaimer">>, <<c, "categories_update">>}
        \cup (IF apiKey # "" THEN {<<c, "notifications">>} ELSE {})

\* lastReportAccess = time.Now(), then the locked section: create the namespace on
\* first contact, collect the tasks to report and delete the finished and failed ones
ReportLock(c, apiKey) ==
    /\ Running
    /\ report[c].st = "idle"
    /\ LET isNew == Tasks[c].nil
           T1 == IF isNew THEN [Tasks EXCEPT ![c] = MakeMap] ELSE Tasks
           listed == Listed(T1, c)
           gone == {heap[o].TaskID : o \in {x \in listed : Terminal(heap[x])}}
       IN /\ Tasks' = [T1 EXCEPT ![c].m = [k \in DOMAIN @ \ gone |-> @[k]]]
          /\ toSpawn' = IF isNew THEN toSpawn \cup InitialJobs(c, apiKey) ELSE toSpawn
          /\ report' = [report EXCEPT ![c] = [st |-> "marshal", toReport |-> listed,
                                             APIKey |-> apiKey]]
    /\ lastReportAccess' = now
    /\ polled' = <<now>>
    /\ UNCHANGED <<heap, nextId, chans, pc, parse, upload, delivered, quit, exitScheduled,
                   exited, crashed, now, wake>>

\* the body the handler writes if it marshals now
Response(c) == ToReport(c, heap, report[c].toReport)

\* json.Marshal(toReport) and w.Write, after TasksMux.Unlock(): the task objects are
\* read through the pointers collected under the lock
ReportMarshal(c) ==
    /\ Running
    /\ report[c].st = "marshal"
    /\ delivered' = [o \in DOMAIN delivered |->
                        IF o \in report[c].toReport /\ Terminal(heap[o]) /\ delivered[o] < 2
                          THEN delivered[o] + 1 ELSE delivered[o]]
    /\ report' = [report EXCEPT ![c] = [st |-> "idle", toReport |-> {}, APIKey |-> ""]]
    /\ UNCHANGED <<Tasks, heap, nextId, chans, workers, quit, exitScheduled, exited,
                   crashed, watchdog>>

\* a malformed request that leaves no liveness stamp
MalformedReportUnstamped ==
    /\ Running
    /\ polled' = <<now>>
    /\ UNCHANGED <<Tasks, heap, nextId, chans, workers, report, delivered, quit,
                   exitScheduled, exited, crashed, now, wake, lastReportAccess>>

\* a request whose body cannot be read or parsed: the handler returns after the
\* liveness stamp
MalformedReport ==
    /\ Running
    /\ lastReportAccess' = now
    /\ polled' = <<now>>
    /\ UNCHANGED <<Tasks, heap, nextId, chans, workers, report, delivered, quit,
                   exitScheduled, exited, crashed, now, wake>>

\* ------------------------------------------------------------------ monitorReportAccess
\* a minute goes by
Tick ==
    /\ Running
    /\ now < MaxTime
    /\ now' = now + 1
    /\ UNCHANGED <<Tasks, heap, nextId, chans, workers, report, delivered, quit,
                   exitScheduled, exited, crashed, lastReportAccess, wake, polled>>

\* time.Since(lastReportAccess) > ReportTimeout
Expired(last, t) == t - last > ReportTimeout

\* a watchdog that lets the process live while a task is unfinished
monitorSparesTasks ==
    /\ Running
    /\ now >= wake
    /\ IF Expired(lastReportAccess, now) /\ \A o \in DOMAIN heap : heap[o].Status # "created"
         THEN exited' = TRUE /\ UNCHANGED wake
         ELSE wake' = now + ReportTimeout /\ UNCHANGED exited
    /\ UNCHANGED <<Tasks, heap, nextId, chans, workers, report, delivered, quit,
                   exitScheduled, crashed, now, lastReportAccess, polled>>

\* for { time.Sleep(ReportTimeout); if time.Since(lastReportAccess) > ReportTimeout
\* { os.Exit(0) } }: time.Sleep returns no sooner than after ReportTimeout
monitorReportAccess ==
    /\ Running
    /\ now >= wake
    /\ IF Expired(lastReportAccess, now)
         THEN exited' = TRUE /\ UNCHANGED wake
         ELSE wake' = now + ReportTimeout /\ UNCHANGED exited
    /\ UNCHANGED <<Tasks, heap, nextId, chans, workers, report, delivered, quit,
                   exitScheduled, crashed, now, lastReportAccess, polled>>

\* ------------------------------------------------------------------ reportBlenderQuitHandler
\* a disconnect that invokes no cancellation handle
CancelNone(h, S) == h

\* for _, task := range Tasks[appID] { task.Cancel() }
CancelAll(h, S) == [o \in DOMAIN h |-> IF o \in S THEN Cancel(h[o]) ELSE h[o]]

\* the locked section: cancel every task of the namespace, then delete the namespace
QuitLock(c) ==
    /\ Running
    /\ quit[c].st = "idle"
    /\ IF ~Tasks[c].nil
         THEN /\ heap' = CancelAll(heap, Registered(c))
              /\ Tasks' = [Tasks EXCEPT ![c] = NilMap]
         ELSE UNCHANGED <<heap, Tasks>>
    /\ quit' = [quit EXCEPT ![c] = [st |-> "check",
                                    removed |-> ~Tasks[c].nil,
                                    emptied |-> ~Tasks[c].nil /\ NoNamespaces(Tasks')]]
    /\ UNCHANGED <<nextId, chans, workers, report, delivered, exitScheduled, exited, crashed,
                   watchdog>>

\* after TasksMux.Unlock(): if len(Tasks) == 0 { go delayedExit(1) }
QuitCheck(c) ==
    /\ Running
    /\ quit[c].st = "check"
    /\ exitScheduled' = (exitScheduled \/ NoNamespaces(Tasks))
    /\ quit' = [quit EXCEPT ![c] = [st |-> "idle", removed |-> FALSE, emptied |-> FALSE]]
    /\ UNCHANGED <<Tasks, heap, nextId, chans, workers, report, delivered, exited, crashed,
                   watchdog>>

\* shutdownHandler: go delayedExit(0.1)
shutdownHandler ==
    /\ Running
    /\ exitScheduled' = TRUE
    /\ UNCHANGED <<Tasks, heap, nextId, chans, workers, report, delivered, quit, exited,
                   crashed, watchdog>>

\* a shutdown that is called off while a client is connected
delayedExitIfAlone ==
    /\ Running
    /\ exitScheduled
    /\ NoNamespaces(Tasks)
    /\ exited' = TRUE
    /\ UNCHANGED <<Tasks, heap, nextId, chans, workers, report, delivered, quit,
                   exitScheduled, crashed, watchdog>>

\* time.Sleep(...); os.Exit(0)
delayedExit ==
    /\ Running
    /\ exitScheduled
    /\ exited' = TRUE
    /\ UNCHANGED <<Tasks, heap, nextId, chans, workers, report, delivered, quit,
                   exitScheduled, crashed, watchdog>>

\* ------------------------------------------------------------------ UploadAsset
Includes(set, x) == \E i \in DOMAIN set : set[i] = x

\* for _, file := range data.UploadSet { if file == "MAINFILE" { isMainFileUpload = true } ... }
IsMainFileUpload(data) == Includes(data.UploadSet, "MAINFILE")

\* the step of the upload goroutine changes nothing but the goroutine itself
UploadOnly ==
    UNCHANGED <<Tasks, heap, nextId, chans, pc, toSpawn, parse, handlers, delivered, crashed>>

\* a remote request or a subprocess the pipeline has started and how it ended, in the
\* order of the calls
Logged(u, entry, ok) == [u EXCEPT !.log = Append(@, entry @@ [ok |-> ok])]

\* AssetUploadHandler: go UploadAsset(data); taskID := uuid.New().String();
\* AddTaskCh <- NewTask(data, data.AppID, taskID, "asset_upload")
UploadAsset(c, data) ==
    /\ upload.st = "idle"
    /\ Running
    /\ ~Full(AddTaskCh)
    /\ Allocate(NewTask(PayloadP, c, nextId, UploadKind), "upload")
    /\ AddTaskCh' = Append(AddTaskCh, nextId)
    /\ upload' = [st |-> "start", AppID |-> c, data |-> data, taskID |-> nextId,
                  metadataID |-> Nil, resp |-> "", files |-> <<>>, i |-> 1,
                  step |-> "negotiate", log |-> <<>>]
    /\ UNCHANGED <<Tasks, TaskProgressUpdateCh, TaskMessageCh, TaskFinishCh, TaskErrorCh,
                   TaskCancelCh, toSpawn, parse, handlers, crashed>>

\* metadataID := uuid.New().String(); AddTaskCh <- NewTask(data, data.AppID, metadataID, ...)
UploadAddMetadata ==
    /\ upload.st = "start"
    /\ Running
    /\ ~Full(AddTaskCh)
    /\ Allocate(NewTask(PayloadP, upload.AppID, nextId, MetadataKind), "upload")
    /\ AddTaskCh' = Append(AddTaskCh, nextId)
    /\ upload' = [upload EXCEPT !.st = "metadata", !.metadataID = nextId]
    /\ UNCHANGED <<Tasks, TaskProgressUpdateCh, TaskMessageCh, TaskFinishCh, TaskErrorCh,
                   TaskCancelCh, toSpawn, parse, handlers, crashed>>

\* a metadata stage that forces the status of a new asset too
SentStatusForcedOnCreate(data) ==
    IF IsMainFileUpload(data) THEN "uploading" ELSE data.VerificationStatus

\* if isMainFileUpload { data.UploadData.VerificationStatus = "uploading" }, update branch only
SentStatus(data) ==
    IF data.AssetBaseID # "" /\ IsMainFileUpload(data) THEN "uploading" ELSE data.VerificationStatus

\* CreateMetadata (POST) for a new asset, UpdateMetadata (PATCH) otherwise
MetadataRequest(data) ==
    [op |-> IF data.AssetBaseID = "" THEN "POST" ELSE "PATCH", file |-> 0,
     status |-> SentStatus(data)]

\* a metadata stage that carries on after a failed call
MetadataSyncGoesOn(ok, status) ==
    /\ upload.st = "metadata"
    /\ Running
    /\ upload' = [Logged(upload, MetadataRequest(upload.data), ok) EXCEPT
                     !.st = "metadata-finish",
                     !.resp = IF ok THEN status ELSE @]
    /\ UploadOnly

\* 1. METADATA UPLOAD: ok is the outcome of the call, status what the server answers
MetadataSync(ok, status) ==
    /\ upload.st = "metadata"
    /\ Running
    /\ upload' = [Logged(upload, MetadataRequest(upload.data), ok) EXCEPT
                     !.st = IF ok THEN "metadata-finish" ELSE "metadata-fail",
                     !.resp = IF ok THEN status ELSE @]
    /\ UploadOnly

\* err != nil: TaskErrorCh <- &TaskError{TaskID: taskID}
FailUploadFirst ==
    /\ upload.st = "metadata-fail"
    /\ Running
    /\ ~Full(TaskErrorCh)
    /\ TaskErrorCh' = Append(TaskErrorCh,
            [AppID |-> upload.AppID, TaskID |-> upload.taskID, Error |-> "err"])
    /\ upload' = [upload EXCEPT !.st = "metadata-fail-2"]
    /\ UNCHANGED <<Tasks, heap, nextId, AddTaskCh, TaskProgressUpdateCh, TaskMessageCh,
                   TaskFinishCh, TaskCancelCh, pc, toSpawn, parse, handlers, delivered, crashed>>

\* TaskErrorCh <- &TaskError{TaskID: metadataID}; return
FailMetadata ==
    /\ upload.st = "metadata-fail-2"
    /\ Running
    /\ ~Full(TaskErrorCh)
    /\ TaskErrorCh' = Append(TaskErrorCh,
            [AppID |-> upload.AppID, TaskID |-> upload.metadataID, Error |-> "err"])
    /\ upload' = [upload EXCEPT !.st = "failed"]
    /\ UNCHANGED <<Tasks, heap, nextId, AddTaskCh, TaskProgressUpdateCh, TaskMessageCh,
                   TaskFinishCh, TaskCancelCh, pc, toSpawn, parse, handlers, delivered, crashed>>

\* TaskFinishCh <- &TaskFinish{TaskID: metadataID, Result: metadataResp}
FinishMetadata ==
    /\ upload.st = "metadata-finish"
    /\ Running
    /\ ~Full(TaskFinishCh)
    /\ TaskFinishCh' = Append(TaskFinishCh,
            [AppID |-> upload.AppID, TaskID |-> upload.metadataID, Message |-> "", Result |-> ResultR])
    /\ upload' = [upload EXCEPT !.st = "packing"]
    /\ UNCHANGED <<Tasks, heap, nextId, AddTaskCh, TaskProgressUpdateCh, TaskMessageCh,
                   TaskErrorCh, TaskCancelCh, pc, toSpawn, parse, handlers, delivered, crashed>>

\* ------------------------------------------------------------------ PackBlendFile
\* the subprocess is run for a main file that is no hdr image
NeedsPacking(data) == IsMainFileUpload(data) /\ data.AssetType # "hdr"

\* the files of the upload set, in its order: THUMBNAIL and MAINFILE entries only
RECURSIVE UploadFiles(_)
UploadFiles(set) ==
    IF set = <<>> THEN <<>>
    ELSE (IF Head(set) = "THUMBNAIL" THEN <<"thumbnail">>
          ELSE IF Head(set) = "MAINFILE" THEN <<"blend">>
          ELSE <<>>) \o UploadFiles(Tail(set))

\* the outcomes of the stage: "fatal" (json.Marshal or os.WriteFile of the data file
\* fails: log.Fatal ends the process), "exit" (cmd.CombinedOutput returns an error),
\* "missing" (FileExists(fpath) is false), "ok".  Without a main file fpath stays ""
\* and no file of that name exists.
PackOutcomes(data) ==
    (IF NeedsPacking(data) THEN {"fatal", "exit"} ELSE {})
        \cup {"missing"}
        \cup (IF IsMainFileUpload(data) THEN {"ok"} ELSE {})

\* 2. PACKING
PackBlendFile(outcome) ==
    /\ upload.st = "packing"
    /\ Running
    /\ outcome \in PackOutcomes(upload.data)
    /\ LET ran == NeedsPacking(upload.data) /\ outcome # "fatal"
           u == IF ran THEN Logged(upload, [op |-> "pack", file |-> 0, status |-> ""], outcome # "exit")
                ELSE upload
       IN upload' = [u EXCEPT !.st = IF outcome = "ok" THEN "files" ELSE "fail",
                              !.files = IF outcome = "ok" THEN UploadFiles(upload.data.UploadSet) ELSE @]
    /\ exited' = (outcome = "fatal")
    /\ UNCHANGED <<Tasks, heap, nextId, chans, pc, toSpawn, parse, report, quit, exitScheduled,
                   delivered, crashed, watchdog>>

\* ------------------------------------------------------------------ upload_asset_data
\* a negotiation whose failure does not end the loop
NegotiateGoesOn(ok) ==
    /\ upload.st = "files" /\ upload.i <= Len(upload.files) /\ upload.step = "negotiate"
    /\ Running
    /\ upload' = [Logged(upload, [op |-> "negotiate", file |-> upload.i, status |-> ""], ok) EXCEPT
                     !.step = "transfer"]
    /\ UploadOnly

\* get_S3_upload_JSON(file, ...): POST /api/v1/uploads/
NegotiateUpload(ok) ==
    /\ upload.st = "files" /\ upload.i <= Len(upload.files) /\ upload.step = "negotiate"
    /\ Running
    /\ upload' = [Logged(upload, [op |-> "negotiate", file |-> upload.i, status |-> ""], ok) EXCEPT
                     !.st = IF ok THEN @ ELSE "fail",
                     !.step = IF ok THEN "transfer" ELSE @]
    /\ UploadOnly

\* uploadFileToS3: os.Stat and os.Open of the file ("nofile" if they fail), then the PUT
TransferFile(outcome) ==
    /\ upload.st = "files" /\ upload.step = "transfer"
    /\ Running
    /\ LET u == IF outcome = "nofile" THEN upload
                ELSE Logged(upload, [op |-> "transfer", file |-> upload.i, status |-> ""],
                            outcome = "ok")
       IN upload' = [u EXCEPT !.st = IF outcome = "ok" THEN @ ELSE "fail",
                              !.step = IF outcome = "ok" THEN "validate" ELSE @]
    /\ UploadOnly

\* uploadFileToS3: POST uploadInfo.UploadDoneURL; then the next file of the loop
ValidateUpload(ok) ==
    /\ upload.st = "files" /\ upload.step = "validate"
    /\ Running
    /\ upload' = [Logged(upload, [op |-> "validate", file |-> upload.i, status |-> ""], ok) EXCEPT
                     !.st = IF ok THEN @ ELSE "fail",
                     !.step = IF ok THEN "negotiate" ELSE @,
                     !.i = IF ok THEN @ + 1 ELSE @]
    /\ UploadOnly

\* a finalization decided by the verification status alone
StatusAloneDecides(data, resp) == resp \in {"on_hold", "deleted", "rejected"}

\* set_uploaded_status
SetUploadedStatus(data, resp) ==
    IsMainFileUpload(data) \/ resp \in {"on_hold", "deleted", "rejected"}

\* after the loop: PATCH verificationStatus = "uploaded" if set_uploaded_status
FinalizeUpload(ok) ==
    /\ upload.st = "files" /\ upload.i > Len(upload.files)
    /\ Running
    /\ IF SetUploadedStatus(upload.data, upload.resp)
         THEN upload' = [Logged(upload, [op |-> "finalize", file |-> 0, status |-> "uploaded"], ok)
                            EXCEPT !.st = IF ok THEN "complete" ELSE "fail"]
         ELSE upload' = [upload EXCEPT !.st = "complete"]
    /\ UploadOnly

\* err != nil in stage 2 or 3: TaskErrorCh <- &TaskError{TaskID: taskID}; return
FailUpload ==
    /\ upload.st = "fail"
    /\ Running
    /\ ~Full(TaskErrorCh)
    /\ TaskErrorCh' = Append(TaskErrorCh,
            [AppID |-> upload.AppID, TaskID |-> upload.taskID, Error |-> "err"])
    /\ upload' = [upload EXCEPT !.st = "failed"]
    /\ UNCHANGED <<Tasks, heap, nextId, AddTaskCh, TaskProgressUpdateCh, TaskMessageCh,
                   TaskFinishCh, TaskCancelCh, pc, toSpawn, parse, handlers, delivered, crashed>>

\* 4. COMPLETE: TaskFinishCh <- &TaskFinish{TaskID: taskID, Result: *metadataResp}
CompleteUpload ==
    /\ upload.st = "complete"
    /\ Running
    /\ ~Full(TaskFinishCh)
    /\ TaskFinishCh' = Append(TaskFinishCh,
            [AppID |-> upload.AppID, TaskID |-> upload.taskID, Message |-> "", Result |-> ResultR])
    /\ upload' = [upload EXCEPT !.st = "done"]
    /\ UNCHANGED <<Tasks, heap, nextId, AddTaskCh, TaskProgressUpdateCh, TaskMessageCh,
                   TaskErrorCh, TaskCancelCh, pc, toSpawn, parse, handlers, delivered, crashed>>

\* ------------------------------------------------------------------ specifications
\* the bus with the jobs that report through it, cancel requests and polls
Next ==
    \/ BusAdd
    \/ BusFinish
    \/ BusError
    \/ BusCancel
    \/ \E c \in Clients : GetRating(c)
    \/ \E t \in TaskIDs : WorkerFail(t)
    \/ \E t \in TaskIDs : WorkerFinish(t)
    \/ \E c \in Clients, id \in TaskIDs : CancelDownloadHandler(c, id)
    \/ \E c \in Clients : ReportLock(c, "")
    \/ \E c \in Clients : ReportMarshal(c)

Spec == Init /\ [][Next]_vars

\* disconnects and delayed shutdown, with jobs and polls
NextQuit ==
    \/ BusAdd
    \/ BusFinish
    \/ \E c \in Clients : GetRating(c)
    \/ \E t \in TaskIDs : WorkerFinish(t)
    \/ \E c \in Clients : ReportLock(c, "")
    \/ \E c \in Clients : ReportMarshal(c)
    \/ \E c \in Clients : QuitLock(c)
    \/ \E c \in Clients : QuitCheck(c)
    \/ delayedExit

SpecQuit == Init /\ [][NextQuit]_vars

\* a download that reports progress and messages, polled by its client
NextDownload ==
    \/ BusAdd
    \/ BusProgressUpdate
    \/ BusMessage
    \/ BusFinish
    \/ BusError
    \/ DownloadAsset(1)
    \/ \E t \in TaskIDs, msg \in {"", "downloading"} : DownloadProgress(t, msg)
    \/ \E t \in TaskIDs : DownloadMessage(t)
    \/ \E t \in TaskIDs : WorkerFail(t)
    \/ \E t \in TaskIDs : WorkerFinish(t)
    \/ ReportLock(1, "")
    \/ ReportMarshal(1)

SpecDownload == Init /\ [][NextDownload]_vars

\* the searches of one client with their thumbnail batches, polled by that client
NextSearch ==
    \/ doSearch(1)
    \/ \E t \in TaskIDs : SearchFail(t)
    \/ \E t \in TaskIDs, n \in 0..MaxTasks : SearchSucceed(t, n)
    \/ \E s \in TaskIDs, b \in BatchKinds, url \in ThumbURLs, onDisk \in BOOLEAN :
          ParseThumbnail(s, b, url, onDisk)
    \/ \E s \in TaskIDs, b \in BatchKinds : downloadImageBatch(s, b, TRUE)
    \/ \E s \in TaskIDs, b \in BatchKinds : BatchReturn(s, b)
    \/ \E t \in ThumbIDs : ThumbnailReturn(t)
    \/ \E t \in ThumbIDs : ThumbnailError(t)
    \/ \E t \in ThumbIDs : ThumbnailFinish(t)
    \/ ReportLock(1, "")
    \/ ReportMarshal(1)

SpecSearch == Init /\ [][NextSearch]_vars

\* the three places that insert into the registry, for two polling clients: the bus
\* (rating jobs), the search worker and the thumbnail parser
NextRegistry ==
    \/ BusAdd
    \/ \E c \in Clients : GetRating(c)
    \/ \E c \in Clients : doSearch(c)
    \/ \E t \in TaskIDs : SearchSucceed(t, MaxThumbs)
    \/ \E s \in TaskIDs, b \in BatchKinds, onDisk \in BOOLEAN : ParseThumbnail(s, b, "u1", onDisk)
    \/ \E c \in Clients : ReportLock(c, "")
    \/ \E c \in Clients : ReportMarshal(c)

SpecRegistry == Init /\ [][NextRegistry]_vars

\* the first contact of one client, with or without an API key, and the initial jobs
\* it starts
NextInitial ==
    \/ BusAdd
    \/ BusFinish
    \/ BusError
    \/ \E apiKey \in APIKeys : ReportLock(1, apiKey)
    \/ ReportMarshal(1)
    \/ \E kind \in InitialKinds : InitialFetch(1, kind)
    \/ \E t \in TaskIDs : WorkerFail(t)
    \/ \E t \in TaskIDs : WorkerFinish(t)

SpecInitial == Init /\ [][NextInitial]_vars

\* first contacts, disconnects and renewed contacts of one client
NextRespawn ==
    \/ BusAdd
    \/ BusFinish
    \/ \E apiKey \in APIKeys : ReportLock(1, apiKey)
    \/ ReportMarshal(1)
    \/ \E kind \in InitialKinds : InitialFetch(1, kind)
    \/ \E t \in TaskIDs : WorkerFinish(t)
    \/ QuitLock(1)
    \/ QuitCheck(1)
    \/ delayedExit

SpecRespawn == Init /\ [][NextRespawn]_vars

\* polls and disconnects of the clients and the shutdown endpoint; a delayedExit
\* goroutine that was started gets to run
NextShutdown ==
    \/ \E c \in Clients : ReportLock(c, "")
    \/ \E c \in Clients : ReportMarshal(c)
    \/ \E c \in Clients : QuitLock(c)
    \/ \E c \in Clients : QuitCheck(c)
    \/ shutdownHandler
    \/ delayedExit

SpecShutdown == Init /\ [][NextShutdown]_vars /\ WF_vars(delayedExit)

\* the producers of one client, its polls and a bus loop whose select takes every
\* channel that stays ready
NextBus ==
    \/ BusAdd
    \/ BusFinish
    \/ BusError
    \/ BusCancel
    \/ GetRating(1)
    \/ \E t \in TaskIDs : WorkerFail(t)
    \/ \E t \in TaskIDs : WorkerFinish(t)
    \/ \E id \in TaskIDs : CancelDownloadHandler(1, id)
    \/ ReportLock(1, "")
    \/ ReportMarshal(1)

SpecBus ==
    /\ Init /\ [][NextBus]_vars
    /\ WF_vars(BusAdd) /\ WF_vars(BusFinish) /\ WF_vars(BusError) /\ WF_vars(BusCancel)

\* jobs whose remote answer may carry no data, polled by their clients
NextResults ==
    \/ BusAdd
    \/ BusFinish
    \/ BusError
    \/ \E c \in Clients : GetRating(c)
    \/ \E t \in TaskIDs : WorkerFail(t)
    \/ \E t \in TaskIDs : WorkerFinish(t)
    \/ \E t \in TaskIDs : WorkerFinishEmpty(t)
    \/ \E c \in Clients : ReportLock(c, "")
    \/ \E c \in Clients : ReportMarshal(c)

SpecResults == Init /\ [][NextResults]_vars

\* the jobs of two clients under one and the same id, with cancel requests, the
\* polls of both clients and the disconnect of one
NextJobs ==
    \/ BusAdd
    \/ BusFinish
    \/ BusError
    \/ BusCancel
    \/ \E c \in Clients, id \in UUIDs : GetRatingAs(c, id)
    \/ \E t \in TaskIDs : WorkerFail(t)
    \/ \E t \in TaskIDs : WorkerFinish(t)
    \/ \E c \in Clients, id \in UUIDs : CancelDownloadHandler(c, id)
    \/ \E c \in Clients : ReportLock(c, "")
    \/ \E c \in Clients : ReportMarshal(c)
    \/ QuitLock(2)
    \/ QuitCheck(2)

SpecJobs == Init /\ [][NextJobs]_vars

\* the idle watchdog with the polls of the clients and jobs in flight
NextWatchdog ==
    \/ Tick
    \/ monitorReportAccess
    \/ \E c \in Clients : ReportLock(c, "")
    \/ \E c \in Clients : ReportMarshal(c)
    \/ MalformedReport
    \/ GetRating(1)
    \/ BusAdd

SpecWatchdog == Init /\ [][NextWatchdog]_vars

\* the request bodies of upload requests
UploadRequests ==
    [UploadSet : UploadSets, AssetBaseID : AssetBaseIDs, AssetType : AssetTypes,
     VerificationStatus : RequestedStatuses]

\* one asset upload of one client, with the bus and the polls of that client
NextUpload ==
    \/ BusAdd
    \/ BusFinish
    \/ BusError
    \/ \E data \in UploadRequests : UploadAsset(1, data)
    \/ UploadAddMetadata
    \/ \E ok \in BOOLEAN, status \in RemoteStatuses : MetadataSync(ok, status)
    \/ FailUploadFirst
    \/ FailMetadata
    \/ FinishMetadata
    \/ \E outcome \in {"fatal", "exit", "missing", "ok"} : PackBlendFile(outcome)
    \/ \E ok \in BOOLEAN : NegotiateUpload(ok)
    \/ \E outcome \in {"nofile", "fail", "ok"} : TransferFile(outcome)
    \/ \E ok \in BOOLEAN : ValidateUpload(ok)
    \/ \E ok \in BOOLEAN : FinalizeUpload(ok)
    \/ FailUpload
    \/ CompleteUpload
    \/ ReportLock(1, "")
    \/ ReportMarshal(1)

SpecUpload == Init /\ [][NextUpload]_vars

\* ------------------------------------------------------------------ properties
TerminalStatuses == {"finished", "error", "cancelled"}

\* the bus applies the error at the head of TaskErrorCh in this step
ErrorApplied == TaskErrorCh # <<>> /\ TaskErrorCh' = Tail(TaskErrorCh)

\* the bus applies the progress update at the head of TaskProgressUpdateCh in this step
ProgressApplied == TaskProgressUpdateCh # <<>> /\ TaskProgressUpdateCh' = Tail(TaskProgressUpdateCh)

IsRegistered(o) == Lookup(Tasks, heap[o].AppID, heap[o].TaskID) = o

\* C1: once the status of a task has left created (finished, error or cancelled),
\* no later step changes it to another status.
C1_AtMostOneTerminalTransition ==
    [][\A o \in DOMAIN heap :
          heap[o].Status \in TerminalStatuses => heap'[o].Status = heap[o].Status]_vars

\* C2: when the bus applies a Fail to a registered task to which a Cancel was applied
\* before, the task is afterwards absent from the registry, and the task object is
\* left as it was: its status is still cancelled (not error) and the error text is
\* not stored in its message.
C2_FailAfterCancelRemoves ==
    [][\A o \in DOMAIN heap :
          ( /\ ErrorApplied
            /\ Lookup(Tasks, Head(TaskErrorCh).AppID, Head(TaskErrorCh).TaskID) = o
            /\ heap[o].CancelCalls > 0 )
          => ( /\ Lookup(Tasks', heap[o].AppID, heap[o].TaskID) = Nil
               /\ heap'[o] = heap[o]
               /\ heap'[o].Status = "cancelled"
               /\ heap'[o].Message # Head(TaskErrorCh).Error )]_vars

\* C2 witness: a cancelled task whose worker has failed and whose Fail the bus has
\* applied: it is gone from the registry of its (still existing) namespace.
C2_Witness ==
    \E o \in DOMAIN heap :
        /\ heap[o].Status = "cancelled" /\ heap[o].CancelCalls > 0
        /\ pc[o] = "done"
        /\ ~Tasks[heap[o].AppID].nil /\ ~IsRegistered(o)
        /\ TaskErrorCh = <<>> /\ TaskFinishCh = <<>>
        /\ ~crashed

\* C3: the bus loop never crashes, whatever mutation it receives.
C3_BusNeverCrashes == ~crashed

\* no Add, Finish or Fail of the task is still on its way to the bus
NothingPending(o) ==
    /\ \A i \in DOMAIN AddTaskCh : AddTaskCh[i] # o
    /\ \A i \in DOMAIN TaskFinishCh :
          ~(TaskFinishCh[i].AppID = heap[o].AppID /\ TaskFinishCh[i].TaskID = heap[o].TaskID)
    /\ \A i \in DOMAIN TaskErrorCh :
          ~(TaskErrorCh[i].AppID = heap[o].AppID /\ TaskErrorCh[i].TaskID = heap[o].TaskID)

\* C4: every worker reports a terminal outcome on every exit path: once the worker
\* of a registered task has returned and nothing of it is on its way to the bus,
\* the task is no longer in status created.
C4_WorkerReportsTerminalOutcome ==
    \A o \in DOMAIN heap :
        (pc[o] \in {"done", "returned"} /\ NothingPending(o) /\ IsRegistered(o) /\ ~crashed)
            => heap[o].Status # "created"

\* C5: an UpdateProgress applied to a task in a terminal status leaves the status,
\* the message and the result of the task unchanged.
C5_ProgressAfterTerminalIsNoOp ==
    [][\A o \in DOMAIN heap :
          ( /\ ProgressApplied
            /\ Lookup(Tasks, Head(TaskProgressUpdateCh).AppID, Head(TaskProgressUpdateCh).TaskID) = o
            /\ heap[o].Status \in TerminalStatuses )
          => ( /\ heap'[o].Status = heap[o].Status
               /\ heap'[o].Message = heap[o].Message
               /\ heap'[o].Result = heap[o].Result )]_vars

\* C6: a task is reported with status finished or error in at most one poll response.
C6_TerminalDeliveredAtMostOnce == \A o \in DOMAIN delivered : delivered[o] <= 1

IsBusTask(o) == heap[o].TaskType \in BusKinds
FinishedByBus(o) == IsBusTask(o) /\ heap[o].Status = "finished"
PayloadOf(o) == IF heap[o].TaskType \in InitialKinds THEN EmptyMap ELSE PayloadP

\* C7: round trip.  A poll whose locked section finds a task that was registered
\* and then finished through the bus lists the task and removes it from the
\* registry; the response of that poll reports the task with status finished, the
\* result R of the Finish and the payload P it was created with; from then on the
\* task object is never changed and never enters the registry again, so that no
\* later poll lists it.
C7_RoundTrip ==
    [][\A c \in Clients : \A o \in DOMAIN heap :
          /\ ( /\ report[c].st = "idle" /\ report'[c].st = "marshal"
               /\ o \in Registered(c) /\ FinishedByBus(o) )
             => (o \in report'[c].toReport /\ o \notin RegisteredIn(Tasks', c))
          /\ ( /\ report[c].st = "marshal" /\ report'[c].st = "idle"
               /\ o \in report[c].toReport /\ FinishedByBus(o) /\ o \notin Registered(c) )
             => \E i \in DOMAIN Response(c) :
                    /\ Response(c)[i].TaskID = heap[o].TaskID
                    /\ Response(c)[i].Status = "finished"
                    /\ Response(c)[i].Result = ResultR
                    /\ Response(c)[i].Data = PayloadOf(o)
          /\ (FinishedByBus(o) /\ heap[o].AppID = c /\ o \notin Registered(c))
             => (o \notin RegisteredIn(Tasks', c) /\ heap'[o] = heap[o])]_vars

\* C7 witness: a task finished through the bus has been reported by one poll and is
\* gone from the registry, and the poll after that is being answered without it.
C7_Witness ==
    \E o \in DOMAIN heap :
        /\ FinishedByBus(o) /\ delivered[o] = 1
        /\ ~Tasks[heap[o].AppID].nil /\ ~IsRegistered(o)
        /\ report[heap[o].AppID].st = "marshal" /\ o \notin report[heap[o].AppID].toReport

\* C8: every poll response holds exactly one daemon_status entry, with status
\* finished, next to one entry per listed task; no registered task is a
\* daemon_status task and the id of the synthetic task is no key of the registry.
C8_OneSyntheticEntry ==
    \A c \in Clients :
        /\ report[c].st = "marshal" =>
              LET r == Response(c) IN
                /\ Cardinality({i \in DOMAIN r : r[i].TaskType = "daemon_status"}) = 1
                /\ \A i \in DOMAIN r : r[i].TaskType = "daemon_status" => r[i].Status = "finished"
                /\ Len(r) = Cardinality(report[c].toReport) + 1
                /\ \A o \in report[c].toReport : \E i \in DOMAIN r : r[i] = Entry(heap[o])
        /\ \A o \in Registered(c) : heap[o].TaskType # "daemon_status"
        /\ Nil \notin DOMAIN Tasks[c].m

\* C8 witness: a poll is about to answer with registered tasks next to the synthetic one.
C8_Witness == \E c \in Clients : report[c].st = "marshal" /\ report[c].toReport # {}

\* the locked section of a disconnect notice for c runs in this step
Disconnects(c) == quit[c].st = "idle" /\ quit'[c].st = "check"

\* C9: a disconnect notice for c invokes the cancellation handle of every task
\* registered under c and removes the namespace: afterwards no task of c is in the
\* registry; the namespaces of other clients and their tasks are left as they were
\* (their cancellation handles are not invoked).
C9_DisconnectCancelsAndRemoves ==
    [][\A c \in Clients : Disconnects(c) =>
          /\ \A o \in Registered(c) :
                heap'[o].CancelCalls = IF heap[o].CancelCalls < 2 THEN heap[o].CancelCalls + 1 ELSE 2
          /\ Tasks'[c].nil
          /\ \A o \in DOMAIN heap : heap[o].AppID = c =>
                \A d \in Clients : o \notin RegisteredIn(Tasks', d)
          /\ \A d \in Clients \ {c} :
                /\ Tasks'[d] = Tasks[d]
                /\ \A o \in Registered(d) : heap'[o] = heap[o]]_vars

\* C9 witness: the namespace of c was just removed with a task in it, whose handle
\* was invoked, while another client holds a task.
C9_Witness ==
    \E c \in Clients, d \in Clients :
        /\ c # d
        /\ quit[c].st = "check" /\ quit[c].removed
        /\ \E o \in DOMAIN heap : heap[o].AppID = c /\ heap[o].CancelCalls = 1
        /\ \E o \in Registered(d) : heap[o].CancelCalls = 0

\* C10: a disconnect notice that removed a namespace schedules the shutdown if and
\* only if the namespace set became empty by that removal.
C10_ShutdownIffLastNamespace ==
    [][\A c \in Clients :
          (quit[c].st = "check" /\ quit'[c].st = "idle" /\ quit[c].removed /\ ~exitScheduled)
            => (exitScheduled' <=> quit[c].emptied)]_vars

\* the bus applies the Add at the head of AddTaskCh in this step
AddApplied == AddTaskCh # <<>> /\ AddTaskCh' = Tail(AddTaskCh)

\* C11: a job request is a first contact too: when the bus applies the Add of a job,
\* the task is afterwards registered under the (possibly new) namespace of its
\* client and the daemon keeps running.
C11_NamespaceCreatedByJobRequest ==
    [][AddApplied =>
          LET o == Head(AddTaskCh) IN
            /\ ~Tasks'[heap[o].AppID].nil
            /\ Lookup(Tasks', heap[o].AppID, heap[o].TaskID) = o
            /\ ~crashed']_vars

\* the worker of t sends its Finish in this step
SendsFinish(t) ==
    /\ pc[t] = "request" /\ pc'[t] = "done"
    /\ TaskFinishCh' = Append(TaskFinishCh, [AppID |-> heap[t].AppID, TaskID |-> heap[t].TaskID,
                                             Message |-> "done", Result |-> ResultR])

\* C12: a worker whose task had its cancellation handle invoked while it was still
\* running never reports Finish for that task.
C12_CancelledWorkerNeverFinishes ==
    [][\A t \in DOMAIN pc : heap[t].CancelCalls > 0 => ~SendsFinish(t)]_vars

\* the bus loop takes a message from one of its channels in this step
BusConsumes ==
    \/ AddApplied
    \/ ProgressApplied
    \/ (TaskMessageCh # <<>> /\ TaskMessageCh' = Tail(TaskMessageCh))
    \/ (TaskFinishCh # <<>> /\ TaskFinishCh' = Tail(TaskFinishCh))
    \/ ErrorApplied
    \/ (TaskCancelCh # <<>> /\ TaskCancelCh' = Tail(TaskCancelCh))

\* a task enters the registry in this step
Inserted(o) ==
    /\ \A c \in Clients : o \notin Registered(c)
    /\ \E c \in Clients : o \in RegisteredIn(Tasks', c)

\* status, message, progress or result of a registered task change in this step
FieldsWritten(o) ==
    /\ o \in DOMAIN heap /\ IsRegistered(o)
    /\ \/ heap'[o].Status # heap[o].Status
       \/ heap'[o].Message # heap[o].Message
       \/ heap'[o].Progress # heap[o].Progress
       \/ heap'[o].Result # heap[o].Result

\* C13: every insertion of a task into the registry and every change of the status,
\* message, progress or result of a registered task happens in a step of the bus
\* loop that applies a bus message.
C13_OnlyBusMutatesRegistry ==
    [][(\E o \in DOMAIN heap' : Inserted(o) \/ FieldsWritten(o)) => BusConsumes]_vars

\* the worker of t has returned (its deferred wg.Done() has run)
WorkerExited(t) == pc[t] \in {"done", "returned"}

\* the worker of t has issued its fetch (it went through ClientBigThumbs.Do once)
FetchIssued(t) == pc[t] = "done"

C16_OneTaskPerDistinctURL ==
    \A s \in DOMAIN parse : \A t1 \in parse[s].made : \A t2 \in parse[s].made :
        t1 # t2 => heap[t1].Data # heap[t2].Data

\* the metadata call of the running upload has failed
MetadataFailed(u) ==
    /\ u.st \notin {"idle", "start", "metadata"}
    /\ u.resp = ""

UploadError(id) == [AppID |-> upload.AppID, TaskID |-> id, Error |-> "err"]

\* C17: when the metadata stage of an upload fails, the pipeline does nothing more
\* than send a Fail for the upload task and then a Fail for the metadata task: the
\* metadata request stays the only request it ever made (no packing subprocess, no
\* negotiation, transfer or validation, no finalization) and no Finish is sent.
C17_MetadataFailureAborts ==
    [][MetadataFailed(upload') =>
          /\ upload'.st \in {"metadata-fail", "metadata-fail-2", "failed"}
          /\ upload'.log = <<MetadataRequest(upload'.data) @@ [ok |-> FALSE]>>
          /\ Len(TaskFinishCh') <= Len(TaskFinishCh)
          /\ (upload.st = "metadata-fail" /\ upload'.st # upload.st) =>
                /\ upload'.st = "metadata-fail-2"
                /\ TaskErrorCh' = Append(TaskErrorCh, UploadError(upload.taskID))
          /\ (upload.st = "metadata-fail-2" /\ upload'.st # upload.st) =>
                /\ upload'.st = "failed"
                /\ TaskErrorCh' = Append(TaskErrorCh, UploadError(upload.metadataID))]_vars

\* C17 witness: an upload whose metadata call failed has ended, and the bus has
\* applied the Fail to the upload task and to the metadata task.
C17_Witness ==
    /\ upload.st = "failed" /\ MetadataFailed(upload)
    /\ heap[upload.taskID].Status = "error"
    /\ heap[upload.metadataID].Status = "error"
    /\ ~crashed

\* the metadata stage of the running upload is through
MetadataDone(u) == u.st \notin {"idle", "start", "metadata"}

\* C18: the metadata stage makes one request: a create (POST) exactly when the
\* request carries no remote asset identity, an update (PATCH) otherwise; the
\* verification status it sends is the in-review marker when it updates and the
\* upload set holds the main file, and the requested status in every other case.
C18_MetadataCreateOrUpdate ==
    MetadataDone(upload) =>
        LET d == upload.data
            r == upload.log[1] IN
          /\ {k \in DOMAIN upload.log : upload.log[k].op \in {"POST", "PATCH"}} = {1}
          /\ (r.op = "POST") <=> (d.AssetBaseID = "")
          /\ (r.op = "PATCH") <=> (d.AssetBaseID # "")
          /\ r.status = IF r.op = "PATCH" /\ Includes(d.UploadSet, "MAINFILE")
                          THEN "uploading" ELSE d.VerificationStatus

\* C18 witness: an update of an asset with its main file was sent with the marker in
\* place of the requested status, and the pipeline went on.
C18_Witness ==
    /\ MetadataDone(upload) /\ upload.st = "files"
    /\ upload.log[1].op = "PATCH" /\ upload.log[1].status = "uploading"
    /\ upload.data.VerificationStatus = "validated"

\* the packing stage ends in this step
PackingEnds == upload.st = "packing" /\ upload'.st # "packing"

\* C19: the packing stage can fail the pipeline only for an upload set with the main
\* file, and starts its subprocess only if the asset type needs packing; for an
\* upload set without the main file the stage starts nothing and the pipeline goes
\* on to the file uploads.
C19_PackingOnlyForMainFile ==
    [][PackingEnds =>
          /\ upload'.log # upload.log => NeedsPacking(upload.data)
          /\ upload'.st = "fail" => IsMainFileUpload(upload.data)
          /\ ~IsMainFileUpload(upload.data) =>
                (upload'.st = "files" /\ upload'.log = upload.log /\ ~exited')]_vars

\* the negotiations, transfers and validations the pipeline has made
FileOps(u) == SelectSeq(u.log, LAMBDA e : e.op \in {"negotiate", "transfer", "validate"})

StepOrder == <<"negotiate", "transfer", "validate">>

\* C20: the file-upload stage goes through the files of the upload set in order and
\* for each file negotiates, then transfers, then validates; a call that failed is
\* the last call the pipeline ever makes (no step for a later file, no finalization,
\* nothing undone), and a pipeline that failed stays failed.
C20_FileUploadInOrder ==
    [][upload'.st # "idle" =>
          LET ops == FileOps(upload') IN
            /\ \A k \in DOMAIN ops :
                  /\ ops[k].op = StepOrder[((k - 1) % 3) + 1]
                  /\ ops[k].file = ((k - 1) \div 3) + 1
                  /\ ops[k].file <= Len(upload'.files)
            /\ \A k \in DOMAIN upload'.log : k < Len(upload'.log) => upload'.log[k].ok
            /\ \A k \in DOMAIN upload'.log :
                  upload'.log[k].op = "finalize" => Len(ops) = 3 * Len(upload'.files)
            /\ upload'.files \in {<<>>, UploadFiles(upload'.data.UploadSet)}
            /\ upload.st \in {"fail", "failed"} =>
                  (upload'.log = upload.log /\ upload'.st \in {"fail", "failed"})]_vars

\* C20 witness: the first of two files was negotiated, transferred and validated, a
\* call for the second file failed, and the pipeline ended there.
C20_Witness ==
    /\ upload.st = "failed"
    /\ Len(upload.files) = 2
    /\ LET last == upload.log[Len(upload.log)] IN
          last.file = 2 /\ ~last.ok /\ last.op \in {"negotiate", "transfer", "validate"}

\* the stage a pipeline is in: 1 MetadataSync, 2 Packing, 3 FileUpload and Finalize,
\* 4 Complete; a pipeline that failed keeps the stage it failed in
StageOf(st) ==
    CASE st \in {"start", "metadata", "metadata-finish", "metadata-fail", "metadata-fail-2"} -> 1
      [] st = "packing" -> 2
      [] st = "files" -> 3
      [] st \in {"complete", "done"} -> 4
      [] OTHER -> 0

FailingStates == {"metadata-fail", "metadata-fail-2", "fail", "failed"}

\* the Finish of the overall upload task
UploadFinish == [AppID |-> upload.AppID, TaskID |-> upload.taskID, Message |-> "", Result |-> ResultR]

\* C21: the stages of an upload run in the order MetadataSync, Packing, FileUpload,
\* Finalize, Complete; a stage that fails ends the pipeline: nothing of a later stage
\* is started, the process stays up so that the Fail of the upload task is sent, that
\* Fail is sent once, and the Finish of the upload task is sent only by a pipeline
\* all of whose calls succeeded.
C21_StagesInOrderFailOnce ==
    [][upload.st # "idle" =>
          /\ upload'.st \notin FailingStates =>
                StageOf(upload'.st) \in {StageOf(upload.st), StageOf(upload.st) + 1}
          /\ upload.st \in FailingStates =>
                (upload'.st \in FailingStates /\ upload'.log = upload.log)
          /\ (upload.st \notin FailingStates /\ upload'.st \in FailingStates) => ~exited'
          /\ (TaskErrorCh' = Append(TaskErrorCh, UploadError(upload.taskID))) =>
                (upload.st \in {"metadata-fail", "fail"} /\ upload'.st \in {"metadata-fail-2", "failed"})
          /\ (TaskFinishCh' = Append(TaskFinishCh, UploadFinish)) =>
                (upload.st = "complete" /\ \A k \in DOMAIN upload.log : upload.log[k].ok)]_vars

\* every file of the upload set went through its three steps
AllFilesUploaded(u) == Len(FileOps(u)) = 3 * Len(UploadFiles(u.data.UploadSet))

Finalized(u) == \E k \in DOMAIN u.log : u.log[k].op = "finalize"

\* C22: an upload without the main file whose metadata call and file uploads all
\* succeeded issues the final status PATCH exactly when the asset is on_hold,
\* deleted or rejected, and for any other status (validated) ends with the Finish of
\* the upload task without that PATCH.
C22_FinalizeWithoutMainFile ==
    (/\ upload.st \in {"done", "failed"}
     /\ ~IsMainFileUpload(upload.data)
     /\ upload.resp # ""
     /\ AllFilesUploaded(upload)
     /\ \A k \in DOMAIN upload.log : upload.log[k].op # "finalize" => upload.log[k].ok)
    => /\ Finalized(upload) <=> upload.resp \in {"on_hold", "deleted", "rejected"}
       /\ ~Finalized(upload) => upload.st = "done"

\* the loop over the files is through and the pipeline decides on the final PATCH
FinalizeStep == upload.st = "files" /\ upload.i > Len(upload.files) /\ upload'.st # "files"

\* C23: when the upload set holds the main file and every file was transferred and
\* validated, the final status PATCH is issued whatever the verification status of
\* the asset; if it fails the pipeline fails, the upload task gets a Fail and is never
\* finished.
C23_FinalizeWithMainFile ==
    [][(upload.st # "idle" /\ IsMainFileUpload(upload.data)) =>
          /\ FinalizeStep =>
                /\ AllFilesUploaded(upload)
                /\ upload'.st \in {"complete", "fail"}
                /\ upload'.log = Append(upload.log,
                        [op |-> "finalize", file |-> 0, status |-> "uploaded",
                         ok |-> (upload'.st = "complete")])
          /\ (Finalized(upload) /\ ~upload.log[Len(upload.log)].ok) =>
                /\ upload.st \in {"fail", "failed"}
                /\ upload'.st \in {"fail", "failed"}
                /\ upload.st # upload'.st =>
                      TaskErrorCh' = Append(TaskErrorCh, UploadError(upload.taskID))
                /\ Len(TaskFinishCh') <= Len(TaskFinishCh)
                /\ heap'[upload.taskID].Status # "finished"]_vars

\* C23 witness: all files of an upload with the main file of a validated asset were
\* uploaded, the final PATCH failed, and the bus has applied the Fail to the upload
\* task.
C23_Witness ==
    /\ upload.st = "failed" /\ IsMainFileUpload(upload.data)
    /\ upload.resp = "validated"
    /\ Finalized(upload) /\ ~upload.log[Len(upload.log)].ok
    /\ AllFilesUploaded(upload)
    /\ heap[upload.taskID].Status = "error"

\* the data file of the packing subprocess could not be serialised or written: the
\* stage ends before the subprocess is started
DataFileFailure ==
    /\ PackingEnds
    /\ NeedsPacking(upload.data)
    /\ upload'.log = upload.log

\* C24: when the packing stage cannot serialise or write its data file, the pipeline
\* fails (the Fail of the upload task is what follows) and the process and the bus
\* keep running.
C24_PackingIOFailureIsReported ==
    [][DataFileFailure => (upload'.st = "fail" /\ ~exited' /\ ~crashed')]_vars

\* the watchdog makes its periodic check in this step
WatchdogChecks == exited' # exited \/ wake' # wake

\* C25: at a periodic check the watchdog leaves the process running if the polling
\* endpoint was called, by any client and with whatever body, no longer ago than the
\* threshold.
C25_WatchdogSparesPolledDaemon ==
    [][(WatchdogChecks /\ polled # <<>> /\ now - polled[1] <= ReportTimeout) => ~exited']_vars

\* C25 witness: the latest call, a malformed one, is exactly the threshold old, and
\* the watchdog has checked and gone back to sleep.
C25_Witness ==
    /\ polled # <<>> /\ now - polled[1] = ReportTimeout
    /\ \A c \in Clients : Tasks[c].nil
    /\ wake = now + ReportTimeout
    /\ ~exited

\* C26: at a periodic check the watchdog ends the process if the polling endpoint
\* was not called for longer than the threshold, or never since the start, whatever
\* the tasks and workers in flight.
C26_WatchdogTerminatesIdleDaemon ==
    [][(WatchdogChecks /\ (polled = <<>> \/ now - polled[1] > ReportTimeout)) => exited']_vars

\* C26 witness: nobody ever polled, a job was requested and its worker is in flight
\* with the task in status created, and the first check has ended the process.
C26_Witness ==
    /\ exited /\ polled = <<>>
    /\ \E o \in DOMAIN heap : heap[o].Status = "created" /\ pc[o] = "request"

\* the task object namespace c holds under id, Nil if none
Held(T, c, id) == IF ~T[c].nil /\ id \in DOMAIN T[c].m THEN T[c].m[id] ELSE Nil

FinishApplied == TaskFinishCh # <<>> /\ TaskFinishCh' = Tail(TaskFinishCh)
CancelApplied == TaskCancelCh # <<>> /\ TaskCancelCh' = Tail(TaskCancelCh)

\* the bus applies a mutation for the id of client c in this step
MutationFor(c, id) ==
    \/ AddApplied /\ heap[Head(AddTaskCh)].AppID = c /\ heap[Head(AddTaskCh)].TaskID = id
    \/ FinishApplied /\ Head(TaskFinishCh).AppID = c /\ Head(TaskFinishCh).TaskID = id
    \/ ErrorApplied /\ Head(TaskErrorCh).AppID = c /\ Head(TaskErrorCh).TaskID = id
    \/ CancelApplied /\ Head(TaskCancelCh).AppID = c /\ Head(TaskCancelCh).TaskID = id

\* C27: task ids are scoped per client: while client d holds a task under an id, a
\* mutation the bus applies for the same id of another client c, a poll of c and a
\* disconnect of c leave the task of d as it is (status, message, progress, result,
\* cancellation handle) and registered under d.
C27_TaskIdsScopedPerClient ==
    [][\A c \in Clients, d \in Clients, id \in TaskIDs :
          ( /\ c # d
            /\ Held(Tasks, d, id) # Nil
            /\ \/ MutationFor(c, id)
               \/ report'[c] # report[c]
               \/ quit'[c] # quit[c] )
          => /\ Held(Tasks', d, id) = Held(Tasks, d, id)
             /\ heap'[Held(Tasks, d, id)] = heap[Held(Tasks, d, id)]]_vars

\* C27 witness: both clients hold a task under the same id; the bus has applied the
\* Cancel and then the Finish addressed to the task of client 2, and the task of
\* client 1 is still as it was created.
C27_Witness ==
    \E id \in TaskIDs :
        LET o1 == Held(Tasks, 1, id)
            o2 == Held(Tasks, 2, id) IN
          /\ o1 # Nil /\ o2 # Nil /\ o1 # o2
          /\ heap[o2].Status = "finished" /\ heap[o2].CancelCalls = 1
          /\ heap[o1].Status = "created" /\ heap[o1].CancelCalls = 0
          /\ heap[o1].Result = EmptyMap
          /\ ~crashed

\* C28: the result of a task is never null, in the registry and in what a poll
\* answers: it is the empty mapping from creation on, and a Finish whose result
\* carries no data leaves an empty structured value.
C28_ResultNeverNull ==
    /\ \A o \in DOMAIN heap : heap[o].Result # NullResult
    /\ \A c \in Clients : report[c].st = "marshal" =>
          \A k \in DOMAIN Response(c) : Response(c)[k].Result # NullResult

\* the poll of client c writes its response in this step, with o among the tasks
PollReports(c, o) ==
    report[c].st = "marshal" /\ report'[c].st = "idle" /\ o \in report[c].toReport

\* C29: a registered task to which the bus has applied a Cancel leaves the registry
\* only when the bus applies a Fail for it or when its client disconnects; no poll
\* removes it, and every poll of its client until then reports it with status
\* cancelled.
C29_CancelledStaysUntilFailOrDisconnect ==
    [][\A o \in DOMAIN heap :
          (IsRegistered(o) /\ heap[o].CancelCalls > 0) =>
              /\ Held(Tasks', heap[o].AppID, heap[o].TaskID) # o =>
                    \/ ErrorApplied /\ Head(TaskErrorCh).AppID = heap[o].AppID
                                    /\ Head(TaskErrorCh).TaskID = heap[o].TaskID
                    \/ Tasks'[heap[o].AppID].nil
              /\ PollReports(heap[o].AppID, o) => Entry(heap[o]).Status = "cancelled"]_vars

\* the Add of the task (appID, taskID) is still waiting in AddTaskCh
AddPending(appID, taskID) ==
    \E k \in DOMAIN AddTaskCh :
        heap[AddTaskCh[k]].AppID = appID /\ heap[AddTaskCh[k]].TaskID = taskID

\* C30: whatever channel the bus loop takes among those that are ready, it applies
\* a Finish, a Fail or a Cancel for a task only after the Add of that task.
C30_AddAppliedFirst ==
    [][/\ FinishApplied => ~AddPending(Head(TaskFinishCh).AppID, Head(TaskFinishCh).TaskID)
       /\ ErrorApplied => ~AddPending(Head(TaskErrorCh).AppID, Head(TaskErrorCh).TaskID)
       /\ CancelApplied => ~AddPending(Head(TaskCancelCh).AppID, Head(TaskCancelCh).TaskID)]_vars

\* C31: the cancellation handle of a task is invoked at most once, whatever Cancel
\* mutations (repeated ones for the same id included) and disconnects arrive.
C31_CancelInvokedAtMostOnce ==
    \A o \in DOMAIN heap : heap[o].CancelCalls <= 1

\* C32: when the bus applies the Add of an initial task (disclaimer, categories,
\* notifications) started by a first poll, the namespace of its client exists: the
\* Add registers the task and the bus keeps running.
C32_InitialAddFindsNamespace ==
    [][(AddApplied /\ heap[Head(AddTaskCh)].TaskType \in InitialKinds) =>
          LET o == Head(AddTaskCh) IN
            /\ ~Tasks[heap[o].AppID].nil
            /\ Held(Tasks', heap[o].AppID, heap[o].TaskID) = o
            /\ ~crashed']_vars

\* C32 witness: the notifications job of a first poll with an API key has sent its
\* Add and the bus has registered the task.
C32_Witness ==
    \E o \in DOMAIN heap :
        /\ heap[o].TaskType = "notifications"
        /\ Held(Tasks, heap[o].AppID, heap[o].TaskID) = o
        /\ AddTaskCh = <<>>
        /\ ~crashed

\* the poll of client c goes through its locked section in this step
PollLocks(c) == report[c].st = "idle" /\ report'[c].st = "marshal"

\* C38: the initial jobs are started by the poll that creates the namespace of its
\* client and by no other step: that poll starts the disclaimer and the categories
\* job, and the notifications job exactly if it carries a non-empty API key; a poll
\* that finds the namespace starts nothing, so the jobs are started again only by
\* the poll that re-creates the namespace after a disconnect removed it.
C38_InitialJobsOncePerNamespace ==
    [][/\ \A c \in Clients :
            /\ (PollLocks(c) /\ Tasks[c].nil) =>
                  /\ ~Tasks'[c].nil
                  /\ toSpawn' = toSpawn \cup {<<c, "disclaimer">>, <<c, "categories_update">>}
                                    \cup (IF report'[c].APIKey # "" THEN {<<c, "notifications">>}
                                                                  ELSE {})
            /\ (PollLocks(c) /\ ~Tasks[c].nil) => toSpawn' = toSpawn
       /\ (\A c \in Clients : ~PollLocks(c)) => toSpawn' \subseteq toSpawn]_vars

\* C38 witness: a disclaimer job of client 1 ran in one lifetime of the namespace,
\* a disconnect removed the namespace, and the poll that re-created it, without an
\* API key, has started the disclaimer job again and no notifications job.
C38_Witness ==
    /\ \E o \in DOMAIN heap : heap[o].TaskType = "disclaimer" /\ heap[o].CancelCalls = 1
    /\ <<1, "disclaimer">> \in toSpawn /\ <<1, "notifications">> \notin toSpawn
    /\ report[1].st = "marshal" /\ report[1].APIKey = ""
    /\ ~Tasks[1].nil

\* C35: a shutdown that was scheduled, by a disconnect or by the shutdown endpoint,
\* stays scheduled and the process exits, whatever polls arrive and whatever
\* namespaces they create in the meantime.
C35_ScheduledShutdownHappens ==
    /\ [][exitScheduled => exitScheduled']_vars
    /\ (exitScheduled ~> exited)

\* C35 witness: the process has exited on its scheduled shutdown while the namespace
\* of a client exists and a poll of that client is being answered.
C35_Witness ==
    /\ exited /\ exitScheduled
    /\ \E c \in Clients : ~Tasks[c].nil /\ report[c].st = "marshal"

\* a goroutine sends on a bus channel in this step
BusSend ==
    \/ Len(AddTaskCh') > Len(AddTaskCh)
    \/ Len(TaskProgressUpdateCh') > Len(TaskProgressUpdateCh)
    \/ Len(TaskMessageCh') > Len(TaskMessageCh)
    \/ Len(TaskFinishCh') > Len(TaskFinishCh)
    \/ Len(TaskErrorCh') > Len(TaskErrorCh)
    \/ Len(TaskCancelCh') > Len(TaskCancelCh)

\* what TasksMux guards is left as it is: the registry and the registered tasks
RegistryUntouched ==
    /\ Tasks' = Tasks
    /\ \A c \in Clients : \A o \in Registered(c) : heap'[o] = heap[o]

C34_RegistryKeysMatchTask ==
    \A c \in Clients : \A id \in DOMAIN Tasks[c].m :
        /\ heap[Tasks[c].m[id]].AppID = c
        /\ heap[Tasks[c].m[id]].TaskID = id

\* C34 witness: both clients have namespaces, and the second client's namespace
\* holds a task the bus inserted, a search task and one of its thumbnail tasks.
C34_Witness ==
    /\ \A c \in Clients : ~Tasks[c].nil
    /\ \E o \in Registered(2) : heap[o].TaskType \in BusKinds
    /\ \E o \in Registered(2) : heap[o].TaskType = SearchKind
    /\ \E o \in Registered(2) : heap[o].TaskType = ThumbnailKind
    /\ ~crashed

\* the thumbnail tasks whose file os.Stat found
OnDisk(o) == heap[o].TaskType = ThumbnailKind /\ heap[o].Message = "thumbnail on disk"

\* C36: a thumbnail task whose file is on disk is finished from the step that
\* inserts it: it is in no download batch, no worker runs for it, its status never
\* is anything but finished, and every poll that lists it reports it finished.
C36_OnDiskThumbnailBornFinished ==
    /\ [](\A o \in DOMAIN heap : OnDisk(o) =>
            /\ heap[o].Status = "finished"
            /\ pc[o] = "none"
            /\ \A s \in DOMAIN parse : \A b \in BatchKinds : o \notin parse[s].batch[b])
    /\ [][\A o \in DOMAIN heap' \ DOMAIN heap :
            heap'[o].TaskType = ThumbnailKind =>
              \/ OnDisk(o)' /\ IsRegistered(o)'
              \/ heap'[o].Status = "created" /\ pc'[o] = "queued"]_vars
    /\ [][\A o \in DOMAIN heap : PollReports(1, o) /\ OnDisk(o) =>
            heap[o].Status = "finished" /\ delivered'[o] = delivered[o] + 1]_vars

\* C36 witness: the parser found a thumbnail on disk, its (empty) batch was started
\* and joined, and a poll has reported the task finished and removed it.
C36_Witness ==
    \E o \in DOMAIN heap :
        /\ OnDisk(o) /\ delivered[o] = 1 /\ ~IsRegistered(o)
        /\ \E s \in DOMAIN parse : o \in parse[s].made /\ \A b \in BatchKinds : parse[s].st[b] = "returned"
        /\ ~crashed

\* the bus applies a terminal mutation (Finish or Fail) to the overall upload task
UploadTerminalApplied ==
    /\ upload.st # "idle"
    /\ \/ FinishApplied /\ Head(TaskFinishCh).TaskID = upload.taskID
       \/ ErrorApplied /\ Head(TaskErrorCh).TaskID = upload.taskID

\* C37: when the metadata stage of an upload succeeded, the bus has applied the
\* Finish of the metadata sub-task by the time it applies the terminal mutation of
\* the overall upload task; the overall task is never finished when the metadata
\* stage failed; a finished overall task carries the metadata the stage returned.
C37_MetadataFinishAppliedFirst ==
    /\ [][(UploadTerminalApplied /\ MetadataDone(upload) /\ ~MetadataFailed(upload)) =>
            heap[upload.metadataID].Status = "finished"]_vars
    /\ [](upload.st # "idle" /\ MetadataFailed(upload) =>
            heap[upload.taskID].Status # "finished")
    /\ [](upload.st # "idle" /\ heap[upload.taskID].Status = "finished" =>
            heap[upload.taskID].Result = ResultR)

====
